---- MODULE Spec2Model ----
(***************************************************************************)
(* Model of pyrate/core/aps.py: the spatio-temporal (APS) filter.          *)
(*                                                                         *)
(* A worker group runs _wrap_spatio_temporal_filter.  Every rank computes  *)
(* the time series of its tiles and saves them to scratch storage; rank 0  *)
(* assembles the full cube, filters it temporally and spatially and        *)
(* writes the corrected interferograms back.                               *)
(*                                                                         *)
(* Floating-point values are modelled as exact rationals <<n, d>> with     *)
(* d > 0 and gcd(n, d) = 1; NaN is <<0, 0>>.                               *)
(***************************************************************************)
EXTENDS Integers, Sequences, FiniteSets, TLC

(***************************************************************************)
(* Bounds of the model.                                                    *)
(***************************************************************************)
\* the worker group has at most NWorkers processes
NWorkers == 2
\* number of consecutive invocations of the orchestrator
NRuns == 2
\* the solver's increments are drawn from 1..MaxVal
MaxVal == 2
\* the temporal filter is applied on its own to rows of up to MaxEpochs epochs
MaxEpochs == 3

(***************************************************************************)
(* Numbers: rationals and NaN.                                             *)
(***************************************************************************)
NaN == <<0, 0>>

\* the content of a cell of np.empty() that nothing has written yet
Uninit == <<1, 0>>

isnan(x) == x[2] = 0

Abs(n) == IF n < 0 THEN -n ELSE n

RECURSIVE GCD(_, _)
GCD(a, b) == IF b = 0 THEN a ELSE GCD(b, a % b)

Rat(n, d) ==
    IF d = 0 THEN NaN
    ELSE LET s == IF d < 0 THEN -1 ELSE 1
             g == GCD(Abs(n), Abs(d))
         IN  <<(s * n) \div g, (s * d) \div g>>

Num(n) == <<n, 1>>

\* the sum is formed over the least common denominator to keep numbers small
FAdd(x, y) == IF isnan(x) \/ isnan(y) THEN NaN
              ELSE LET g == GCD(x[2], y[2])
                   IN  Rat(x[1] * (y[2] \div g) + y[1] * (x[2] \div g),
                           (x[2] \div g) * y[2])

FNeg(x) == <<-x[1], x[2]>>

FSub(x, y) == FAdd(x, FNeg(y))

FMul(x, y) == IF isnan(x) \/ isnan(y) THEN NaN
              ELSE LET a == Rat(x[1], y[2])
                       b == Rat(y[1], x[2])
                   IN  Rat(a[1] * b[1], a[2] * b[2])

\* x / y; the only division by zero the filters can reach is 0 / 0
FDiv(x, y) == IF isnan(x) \/ isnan(y) \/ y[1] = 0 THEN NaN
              ELSE FMul(x, Rat(y[2], y[1]))

FLess(x, y) == x[1] * y[2] < y[1] * x[2]

FAbs(x) == <<Abs(x[1]), x[2]>>

RECURSIVE FPow(_, _)
FPow(x, k) == IF k = 0 THEN Num(1) ELSE FMul(x, FPow(x, k - 1))

\* np.sum of the values f[i], i in lo..hi-1 (0 for an empty range)
RECURSIVE FSum(_, _, _)
FSum(f, lo, hi) == IF lo >= hi THEN Num(0) ELSE FAdd(f[lo], FSum(f, lo + 1, hi))

\* np.sum over a sequence
SeqSum(s) == FSum(s, 1, Len(s) + 1)

\* an array held by value: the function f with every element evaluated once
Array(f) == f @@ <<>>


\* exp(-t) for t >= 0.  The exponential is irrational; the model uses the
\* rational 1 / (1 + t), which like exp(-t) is 1 at t = 0, positive and
\* strictly decreasing.
ExpNeg(t) == FDiv(Num(1), FAdd(Num(1), t))

(***************************************************************************)
(* Raster geometry.  The raster is ifg.shape = (2, 2) with pixel sizes in  *)
(* metres; arrays are indexed from 0 as in the source.                     *)
(***************************************************************************)
Geometry == [shape |-> <<2, 2>>, x_size |-> 1000, y_size |-> 1000]

Rows == Geometry.shape[1]
Cols == Geometry.shape[2]

\* a cell is <<y, x>>
Cells == (0 .. Rows - 1) \X (0 .. Cols - 1)

\* a cube of nv epochs is a function Cells -> [0 .. nv-1 -> number]
EmptyCube == [c \in Cells |-> <<>>]

(***************************************************************************)
(* Temporal low-pass filter.                                               *)
(***************************************************************************)
\* Gaussian filter weights, np.exp(-((yr / cutoff) ** 2) / 2)
gauss(m, yr, cutoff) ==
    Array([j \in 1 .. Len(yr) |-> ExpNeg(FDiv(FPow(FDiv(yr[j], cutoff), 2), Num(2)))])

\* triangular filter weights: cutoff - abs(yr), negative weights set to 0
triangle(m, yr, cutoff) ==
    Array([j \in 1 .. Len(yr) |->
            LET wgt == FSub(cutoff, FAbs(yr[j]))
            IN  IF FLess(wgt, Num(0)) THEN Num(0) ELSE wgt])

\* a plausible slip: the mean filter weights fall off with the time offset
mean_filter_offset(m, yr, cutoff) == triangle(m, yr, cutoff)

\* mean filter weights, np.ones(m)
mean_filter(m, yr, cutoff) == [j \in 1 .. m |-> Num(1)]

\* func(m, yr, cutoff) for the func that temporal_low_pass_filter selects
Kernel(method, m, yr, cutoff) ==
    IF method = 1 THEN gauss(m, yr, cutoff)
    ELSE IF method = 2 THEN triangle(m, yr, cutoff)
    ELSE mean_filter(m, yr, cutoff)

\* np.nonzero(nanmat[i, j, :])[0]: the non-NaN epoch indices, ascending
RECURSIVE SelFrom(_, _, _)
SelFrom(row, e, nv) ==
    IF e >= nv THEN <<>>
    ELSE IF isnan(row[e]) THEN SelFrom(row, e + 1, nv)
    ELSE <<e>> \o SelFrom(row, e + 1, nv)

\* a plausible slip: every epoch is selected, the NaN ones too
Sel_all(row, nv) == [j \in 1 .. nv |-> j - 1]

Sel(row, nv) == SelFrom(row, 0, nv)

\* span = epochlist.spans[:nvels] + np.diff(epochlist.spans) / 2
SpanOf(spans, nv) ==
    Array([i \in 0 .. nv - 1 |->
            FAdd(spans[i], FDiv(FSub(spans[i + 1], spans[i]), Num(2)))])

\* the body of _tlpfilter for one pixel (i, j): row is tsincr[i, j, :]
tlpfilter(row, nv, span, threshold, cutoff, method) ==
    LET sel == Sel(row, nv)
        m   == Len(sel)
    IN  Array([e \in 0 .. nv - 1 |->
            IF m >= threshold /\ ~isnan(row[e])
            THEN LET yr  == Array([j \in 1 .. m |-> FSub(span[sel[j]], span[e])])
                     wgt == Kernel(method, m, yr, cutoff)
                     tot == SeqSum(wgt)
                     nrm == Array([j \in 1 .. m |-> FDiv(wgt[j], tot)])
                 IN  SeqSum(Array([j \in 1 .. m |-> FMul(row[sel[j]], nrm[j])]))
            ELSE NaN])

temporal_low_pass_filter(tsincr, nv, spans, params) ==
    LET span == SpanOf(spans, nv)
    IN  Array([c \in Cells |->
            tlpfilter(tsincr[c], nv, span, params.tlpf_pthr,
                      params.tlpf_cutoff, params.tlpf_method)])

\* elementwise a - b of two cubes
CubeSub(a, b, nv) ==
    Array([c \in Cells |-> Array([e \in 0 .. nv - 1 |-> FSub(a[c][e], b[c][e])])])

(***************************************************************************)
(* Spatial low-pass filter.                                                *)
(***************************************************************************)
\* to convert into metres -> km
distfact == 1000

\* the cells of a slice that hold a value
Known(a) == {c \in Cells : ~isnan(a[c])}

\* row-major position of a cell
Flat(c) == c[1] * Cols + c[2]

SqDist(c, d) == (c[1] - d[1]) * (c[1] - d[1]) + (c[2] - d[2]) * (c[2] - d[2])

\* scipy's griddata raises when it is given no known point at all, and the
\* triangulating methods raise when given fewer than three
griddata_raises(a, method) ==
    \/ Known(a) = {}
    \/ method /= "nearest" /\ Cardinality(Known(a)) < 3

\* scipy's griddata at the unknown cell c.  "nearest" takes the value of the
\* closest known cell (the first in row-major order among equals); "linear"
\* is NaN outside the convex hull of the known cells, which on this raster
\* is every unknown cell since each cell is a corner of the grid.
griddata(a, c, method) ==
    IF method = "nearest"
    THEN LET best == CHOOSE k \in Known(a) :
                        \A o \in Known(a) :
                            \/ SqDist(c, k) < SqDist(c, o)
                            \/ SqDist(c, k) = SqDist(c, o) /\ Flat(k) <= Flat(o)
         IN  a[best]
    ELSE NaN

\* _interpolate_nans_2d: fill by interpolation, then zero fill what is left
interpolate_nans_2d(a, method) ==
    Array([c \in Cells |->
            IF ~isnan(a[c]) THEN a[c]
            ELSE LET v == griddata(a, c, method)
                 IN  IF isnan(v) THEN Num(0) ELSE v])

\* the epoch slice ts[:, :, i] of a cube
Slice(ts, i) == Array([c \in Cells |-> ts[c][i]])

\* the cube whose epoch slices are sl[0], ..., sl[nv-1]
Stack(sl, nv) == Array([c \in Cells |-> Array([i \in 0 .. nv - 1 |-> sl[i][c]])])

\* the kernel of the discrete Fourier transform along an axis of length at
\* most 2: exp(-2 pi i u y / n) is 1 or -1
Sign(k) == IF k % 2 = 0 THEN 1 ELSE -1

\* fft2(phase); all terms are real on this raster
fft2(a) ==
    Array([f \in Cells |->
            LET term == [c \in Cells |->
                            FMul(Num(Sign(f[1] * c[1] + f[2] * c[2])), a[c])]
                flat == [k \in 1 .. Rows * Cols |->
                            term[<<(k - 1) \div Cols, (k - 1) % Cols>>]]
            IN  SeqSum(flat)])

\* np.real(ifft2(a))
ifft2(a) ==
    LET f == fft2(a)
    IN  Array([c \in Cells |-> FDiv(f[c], Num(Rows * Cols))])

\* fftshift moves the zero frequency to the centre: a shift by n // 2
fftshift(a) ==
    Array([c \in Cells |->
            a[<<(c[1] + Rows - Rows \div 2) % Rows, (c[2] + Cols - Cols \div 2) % Cols>>]])

\* ifftshift undoes fftshift: a shift by -(n // 2)
ifftshift(a) ==
    Array([c \in Cells |->
            a[<<(c[1] + Rows \div 2) % Rows, (c[2] + Cols \div 2) % Cols>>]])

\* dist ** 2, in km^2, of a cell from the centre (cy, cx) of the raster
DistSq(c) ==
    LET cx == Cols \div 2
        cy == Rows \div 2
        xx == (c[2] - cx) * Geometry.x_size
        yy == (c[1] - cy) * Geometry.y_size
    IN  Rat(xx * xx + yy * yy, distfact * distfact)

\* the transfer function H at a cell.  (dist / cutoff) ** (2 * order) is
\* computed as (dist^2 / cutoff^2) ** order, which keeps it rational.
Transfer(c, cutoff, params) ==
    LET q == FDiv(DistSq(c), FMul(cutoff, cutoff))
    IN  IF params.slpf_method = 1
        THEN FDiv(Num(1), FAdd(Num(1), FPow(q, params.slpf_order)))
        ELSE ExpNeg(FDiv(q, Num(2)))

\* _slp_filter
slp_filter(phase, cutoff, params) ==
    LET imf  == fftshift(fft2(phase))
        outf == Array([c \in Cells |-> FMul(imf[c], Transfer(c, cutoff, params))])
        out  == ifft2(ifftshift(outf))
    IN  Array([c \in Cells |-> IF isnan(phase[c]) THEN NaN ELSE out[c]])

\* _slpfilter; alpha is what cvd_from_phase fits to the slice
slpfilter(phase, alpha, params) ==
    IF \A c \in Cells : isnan(phase[c]) THEN phase
    ELSE LET cutoff == IF params.slpf_cutoff = Num(0)
                       THEN FDiv(Num(1), alpha)
                       ELSE params.slpf_cutoff
         IN  slp_filter(phase, cutoff, params)

\* a plausible slip: the cube goes to the transform with its NaNs
nanfill_skipped(ts_lp, nv, params) == ts_lp

\* the NaN fill of spatial_low_pass_filter, in place on ts_lp
nanfill(ts_lp, nv, params) ==
    IF params.slpf_nanfill = 0
    THEN Array([c \in Cells |->
            Array([i \in 0 .. nv - 1 |->
                IF isnan(ts_lp[c][i]) THEN Num(0) ELSE ts_lp[c][i]])])
    ELSE Stack(Array([i \in 0 .. nv - 1 |->
                    interpolate_nans_2d(Slice(ts_lp, i), params.slpf_nanfill_method)]),
               nv)

\* whether the NaN fill raises
nanfill_raises(ts_lp, nv, params) ==
    /\ params.slpf_nanfill /= 0
    /\ \E i \in 0 .. nv - 1 :
          griddata_raises(Slice(ts_lp, i), params.slpf_nanfill_method)

\* spatial_low_pass_filter; alphas[i] is the fit of cvd_from_phase to slice i
spatial_low_pass_filter(ts_lp, nv, alphas, params) ==
    LET filled == nanfill(ts_lp, nv, params)
    IN  Stack(Array([i \in 0 .. nv - 1 |->
                    slpfilter(Slice(filled, i), alphas[i], params)]),
              nv)

(***************************************************************************)
(* The interferogram network and the tiles.                                *)
(***************************************************************************)
\* preread_ifgs in insertion order: storage key, master and slave date
\* (dates in years)
Network ==
    << [path |-> 3, master |-> 0, slave |-> 1],
       [path |-> 1, master |-> 1, slave |-> 3],
       [path |-> 2, master |-> 0, slave |-> 3] >>

NIfgs == Len(Network)
Paths == {Network[k].path : k \in 1 .. NIfgs}

\* sorted(preread_ifgs.items()): the interferograms ordered by storage key
RECURSIVE SortByPath(_)
SortByPath(S) ==
    IF S = {} THEN <<>>
    ELSE LET lo == CHOOSE g \in S : \A h \in S : g.path <= h.path
         IN  <<lo>> \o SortByPath(S \ {lo})

SortedIfgs == SortByPath({Network[k] : k \in 1 .. NIfgs})

\* the ascending sequence of the members of a set of integers
RECURSIVE SortInts(_)
SortInts(S) ==
    IF S = {} THEN <<>>
    ELSE LET lo == CHOOSE g \in S : \A h \in S : g <= h
         IN  <<lo>> \o SortInts(S \ {lo})

\* get_epochs(ifgs): the sorted distinct dates, for every master then every
\* slave date its index into them, and the spans from the first date
get_epochs(ifgs) ==
    LET combs == [k \in 1 .. 2 * Len(ifgs) |->
                    IF k <= Len(ifgs) THEN ifgs[k].master
                    ELSE ifgs[k - Len(ifgs)].slave]
        dates == SortInts({combs[k] : k \in 1 .. Len(combs)})
        pos(d) == CHOOSE j \in 1 .. Len(dates) : dates[j] = d
    IN  [dates |-> dates,
         n     |-> [k \in 1 .. Len(combs) |-> pos(combs[k]) - 1],
         spans |-> [i \in 0 .. Len(dates) - 1 |-> Num(dates[i + 1] - dates[1])]]

\* the epoch count of a time series of the network: tsincr.shape[2]
Nvels == Len(get_epochs(SortedIfgs).dates) - 1

\* the tiles, in index order; bounds as in Tile: [top left, bottom right)
Tiles ==
    << [index |-> 0, top_left_y |-> 0, bottom_right_y |-> 1,
        top_left_x |-> 0, bottom_right_x |-> Cols],
       [index |-> 1, top_left_y |-> 1, bottom_right_y |-> Rows,
        top_left_x |-> 0, bottom_right_x |-> Cols] >>

NTiles == Len(Tiles)
TileIds == 0 .. NTiles - 1

\* Tiles is indexed from 1, tile indices and enumerate() count from 0
TileAt(n) == Tiles[n + 1]

\* the cells of the raster a tile covers
TileCells(t) ==
    {c \in Cells : /\ t.top_left_y <= c[1] /\ c[1] < t.bottom_right_y
                   /\ t.top_left_x <= c[2] /\ c[2] < t.bottom_right_x}

\* the tile-local position of a raster cell of tile t
Local(t, c) == <<c[1] - t.top_left_y, c[2] - t.top_left_x>>

LocalCells(t) == {Local(t, c) : c \in TileCells(t)}

\* the phase of interferogram p before any correction; NaN where the
\* interferogram has no coverage
OrigPhase(p) ==
    [c \in Cells |->
        IF (p = 1 /\ c = <<0, 1>>) \/ (p = 2 /\ c = <<1, 1>>) THEN NaN
        ELSE Num(10 * p + Flat(c))]

(***************************************************************************)
(* Inputs of a run.                                                        *)
(***************************************************************************)
\* nvels before any tile has been computed
None == -1

\* params: the configurations the model runs under
ParamSets ==
    { [apsest |-> TRUE, tlpf_method |-> 3, tlpf_pthr |-> 2, tlpf_cutoff |-> Num(1),
       slpf_method |-> 1, slpf_order |-> 1, slpf_cutoff |-> Num(1),
       slpf_nanfill |-> 0, slpf_nanfill_method |-> "linear"],
      [apsest |-> TRUE, tlpf_method |-> 2, tlpf_pthr |-> 1, tlpf_cutoff |-> Num(2),
       slpf_method |-> 2, slpf_order |-> 1, slpf_cutoff |-> Num(0),
       slpf_nanfill |-> 1, slpf_nanfill_method |-> "nearest"],
      [apsest |-> TRUE, tlpf_method |-> 1, tlpf_pthr |-> 2, tlpf_cutoff |-> Num(1),
       slpf_method |-> 1, slpf_order |-> 2, slpf_cutoff |-> Num(2),
       slpf_nanfill |-> 1, slpf_nanfill_method |-> "linear"],
      [apsest |-> FALSE, tlpf_method |-> 3, tlpf_pthr |-> 2, tlpf_cutoff |-> Num(1),
       slpf_method |-> 1, slpf_order |-> 1, slpf_cutoff |-> Num(1),
       slpf_nanfill |-> 0, slpf_nanfill_method |-> "linear"] }

\* the values alpha that cvd_from_phase may fit to a slice
Alphas == {Num(1), Num(2)}

\* where the solver leaves the time series undefined: sets of <<cell, epoch>>
HolePatterns ==
    { {},
      {<<(<<0, 0>>), 0>>},
      {<<(<<1, 1>>), e>> : e \in 0 .. Nvels - 1},
      {<<c, 0>> : c \in Cells} }

\* the time series the solver computes for the network, over the whole raster
TruthCubes ==
    { [c \in Cells |->
          [e \in 0 .. Nvels - 1 |->
              IF <<c, e>> \in holes THEN NaN ELSE Num(g * (Flat(c) + 1) + e)]]
      : g \in 1 .. MaxVal, holes \in HolePatterns }

\* a scratch file that does not exist
Absent == [state |-> "absent", nv |-> 0, data |-> <<>>, by |-> 0]

\* a scratch file being written by np.save in run k
Partial(k) == [state |-> "partial", nv |-> 0, data |-> <<>>, by |-> k]

\* a scratch file of tile t left in TMPDIR by an earlier job, of nv epochs
Stale(t, nv) ==
    [state |-> "saved", nv |-> nv,
     data |-> [lc \in LocalCells(t) |-> [e \in 0 .. nv - 1 |-> Num(9)]], by |-> 0]

\* TMPDIR before the first run: empty, or holding an earlier job's files
InitScratch ==
    {[n \in TileIds |-> Absent]}
        \cup {[n \in TileIds |-> Stale(TileAt(n), nv)] : nv \in Nvels - 1 .. Nvels + 1}

(***************************************************************************)
(* State.                                                                  *)
(***************************************************************************)
VARIABLES
    size,       \* mpiops.size: the number of processes of the job
    params,     \* the configuration
    split,      \* the static assignment of tiles to ranks: [TileIds -> Ranks]
    truth,      \* what the solver computes for this network
    scratch,    \* TMPDIR: the file tsincr_aps_<n>.npy of every tile
    ifgs,       \* the rasters on disk: phase data and the APS metadata tag
    run,        \* the number of the current run of the orchestrator
    pc,         \* where each rank is
    ti,         \* how many of its tiles each rank has computed
    nvels,      \* each rank's nvels
    tsincr,     \* each rank's tsincr cube
    ts_hp,      \* each rank's ts_hp cube
    opened,     \* whether each rank holds ifg_paths[0] open (read-only)
    chan,       \* per rank, the broadcasts of rank 0 it has yet to receive
    tsincr_g,   \* the cube _assemble_tsincr is filling
    asm_k,      \* how many calls of _assemble_tiles have returned
    saved_k,    \* how many interferograms _ts_to_ifgs has saved
    state,      \* the step of the correction run (rank 0)
    failed,     \* the exception that ended the run, or "none"
    reads,      \* history: the loads of scratch files by _assemble_tiles
    before,     \* history: the rasters as they were when the run began
    slp_in,     \* history: the cube passed to spatial_low_pass_filter
    rw,         \* the read-write handles on rasters: records [rank, path]
    probe       \* the input and the output of a filter applied on its own

vars == <<size, params, split, truth, scratch, ifgs, run, pc, ti, nvels, tsincr, ts_hp,
          opened, chan, tsincr_g, asm_k, saved_k, state, failed, reads, before, slp_in, rw,
          probe>>

inputs == <<size, params, split, truth, probe>>

\* the ranks of the worker group; rank 0 is the one run_once runs on
Ranks == 0 .. size - 1

\* the inputs of the jobs of more than one process: one configuration and
\* one time series, every split and every state of TMPDIR
GroupParams == {q \in ParamSets : q.apsest /\ q.slpf_nanfill = 0}
GroupCubes  == {tc \in TruthCubes : tc[<<1, 1>>][0] = Num(4 * MaxVal) /\ isnan(tc[<<0, 0>>][0])}

\* the inputs of the jobs of one process: every configuration and every
\* time series; TMPDIR is empty or holds files of another epoch count
SerialScratch == {sc \in InitScratch : sc[0].nv /= Nvels}

NoCube == [c \in Cells |-> <<>>]

\* mpiops.array_split(tiles) on rank r: the tiles of r, in index order
array_split(r) == SortInts({n \in TileIds : split[n] = r})

\* shared.check_correction_status: whether every interferogram has the tag
check_correction_status == \A p \in Paths : ifgs[p].tag = "APS_REMOVED"

\* time_series(...)[0] for tile t: the solver's time series of the tile
time_series(t) == [lc \in LocalCells(t) |-> truth[<<lc[1] + t.top_left_y, lc[2] + t.top_left_x>>]]

Init ==
    /\ size \in 1 .. NWorkers
    /\ split \in [TileIds -> Ranks]
    /\ params \in IF size = 1 THEN ParamSets ELSE GroupParams
    /\ truth \in IF size = 1 THEN TruthCubes ELSE GroupCubes
    /\ scratch \in IF size = 1 THEN SerialScratch ELSE InitScratch
    /\ ifgs = [p \in Paths |-> [phase |-> OrigPhase(p), tag |-> "none"]]
    /\ before = [p \in Paths |-> [phase |-> OrigPhase(p), tag |-> "none"]]
    /\ run = 1
    /\ pc = [r \in Ranks |-> "start"]
    /\ ti = [r \in Ranks |-> 0]
    /\ nvels = [r \in Ranks |-> None]
    /\ tsincr = [r \in Ranks |-> NoCube]
    /\ ts_hp = [r \in Ranks |-> NoCube]
    /\ opened = [r \in Ranks |-> FALSE]
    /\ chan = [r \in Ranks |-> <<>>]
    /\ tsincr_g = NoCube
    /\ asm_k = 0
    /\ saved_k = 0
    /\ state = "NOT_STARTED"
    /\ failed = "none"
    /\ reads = <<>>
    /\ slp_in = NoCube
    /\ rw = {}
    /\ probe = [fn |-> "none"]

(***************************************************************************)
(* Helpers of the actions.                                                 *)
(***************************************************************************)
\* mpiops.comm.bcast from rank 0: the value is on its way to every other
\* rank; rank 0 does not wait for them to receive it
Bcast(v) == [q \in Ranks |-> IF q = 0 THEN chan[q] ELSE Append(chan[q], v)]

\* the receiving side of a bcast on rank r: blocks until rank 0 has sent
CanRecv(r) == r /= 0 /\ chan[r] /= <<>>

Recvd(r) == [chan EXCEPT ![r] = Tail(chan[r])]

Goto(r, l) == [pc EXCEPT ![r] = l]

\* a plausible slip: the loop passes the first tile at every turn
AsmIndex_one_tile(k) == [i |-> k \div NTiles, n |-> 0]

\* the epoch and the tile of the k-th call of _assemble_tiles (k from 0):
\* for i in range(nvels): for n, t in enumerate(tiles)
AsmIndex(k) == [i |-> k \div NTiles, n |-> k % NTiles]

\* merge._assemble_tiles raises: np.load fails on a missing or half-written
\* file, and tsincr[:, :, i] fails when the file has no epoch i
assemble_tiles_raises(i, file) ==
    IF file.state /= "saved" THEN "MissingScratchData"
    ELSE IF i >= file.nv THEN "ShapeMismatch"
    ELSE "none"

\* merge._assemble_tiles: copy epoch i of the tile's file into the region of
\* the tile in the cube being filled
assemble_tiles(i, t, cube, file) ==
    Array([c \in Cells |->
            IF c \in TileCells(t)
            THEN [cube[c] EXCEPT ![i] = file.data[Local(t, c)][i]]
            ELSE cube[c]])

\* a plausible slip: the increments are summed from the first epoch on
ts_to_ifgs_phase_cumulative(ts, i) ==
    LET n == get_epochs(SortedIfgs).n
    IN  Array([c \in Cells |-> FSum(ts[c], 0, n[NIfgs + i])])

\* np.sum(tsincr[:, :, index_master[i]: index_slave[i]], axis=2) for the
\* i-th interferogram by storage key (i from 1)
ts_to_ifgs_phase(ts, i) ==
    LET n            == get_epochs(SortedIfgs).n
        index_master == n[i]
        index_slave  == n[NIfgs + i]
    IN  Array([c \in Cells |-> FSum(ts[c], index_master, index_slave)])

\* a plausible slip: the metadata tag is not set
save_aps_corrected_phase_untagged(ifg, phase) ==
    [phase |-> [c \in Cells |-> IF ~isnan(ifg.phase[c]) THEN phase[c] ELSE ifg.phase[c]],
     tag   |-> ifg.tag]

\* a plausible slip: the whole raster is overwritten
save_aps_corrected_phase_unmasked(ifg, phase) ==
    [phase |-> phase, tag |-> "APS_REMOVED"]

\* _save_aps_corrected_phase: what the raster holds after the save
save_aps_corrected_phase(ifg, phase) ==
    [phase |-> [c \in Cells |-> IF ~isnan(ifg.phase[c]) THEN phase[c] ELSE ifg.phase[c]],
     tag   |-> "APS_REMOVED"]

(***************************************************************************)
(* _wrap_spatio_temporal_filter, rank by rank.                             *)
(***************************************************************************)
\* line 60: nothing to do unless APS correction is asked for
Start(r) ==
    /\ pc[r] = "start"
    /\ pc' = Goto(r, IF params.apsest THEN "check" ELSE "done")
    /\ UNCHANGED <<inputs, scratch, ifgs, run, ti, nvels, tsincr, ts_hp, opened,
                   chan, tsincr_g, asm_k, saved_k, state, failed, reads, before, slp_in, rw>>

\* line 66 on rank 0: run_once(check_correction_status)
CheckRoot ==
    /\ pc[0] = "check"
    /\ LET res == check_correction_status
       IN  /\ chan' = Bcast(res)
           /\ pc' = Goto(0, IF res THEN "done" ELSE "tiles")
           /\ state' = IF res THEN "SKIPPED" ELSE state
    /\ UNCHANGED <<inputs, scratch, ifgs, run, ti, nvels, tsincr, ts_hp, opened,
                   tsincr_g, asm_k, saved_k, failed, reads, before, slp_in, rw>>

\* line 66 on the other ranks
CheckRecv(r) ==
    /\ pc[r] = "check"
    /\ CanRecv(r)
    /\ chan' = Recvd(r)
    /\ pc' = Goto(r, IF Head(chan[r]) THEN "done" ELSE "tiles")
    /\ UNCHANGED <<inputs, scratch, ifgs, run, ti, nvels, tsincr, ts_hp, opened,
                   tsincr_g, asm_k, saved_k, state, failed, reads, before, slp_in, rw>>

\* lines 149-154: the next tile of rank r is computed and np.save opens its file
TileCompute(r) ==
    /\ pc[r] = "tiles"
    /\ ti[r] < Len(array_split(r))
    /\ LET n == array_split(r)[ti[r] + 1]
       IN  scratch' = [scratch EXCEPT ![TileAt(n).index] = Partial(run)]
    /\ pc' = Goto(r, "saving")
    /\ UNCHANGED <<inputs, ifgs, run, ti, nvels, tsincr, ts_hp, opened, chan,
                   tsincr_g, asm_k, saved_k, state, failed, reads, before, slp_in, rw>>

\* lines 154-155: np.save completes; nvels = tsincr.shape[2]
TileSave(r) ==
    /\ pc[r] = "saving"
    /\ LET n == array_split(r)[ti[r] + 1]
           t == TileAt(n)
       IN  /\ scratch' = [scratch EXCEPT ![t.index] =
                            [state |-> "saved", nv |-> Nvels,
                             data |-> time_series(t), by |-> run]]
           /\ nvels' = [nvels EXCEPT ![r] = Nvels]
    /\ ti' = [ti EXCEPT ![r] = ti[r] + 1]
    /\ pc' = Goto(r, "tiles")
    /\ UNCHANGED <<inputs, ifgs, run, tsincr, ts_hp, opened, chan,
                   tsincr_g, asm_k, saved_k, state, failed, reads, before, slp_in, rw>>

\* line 157 on rank 0: nvels = comm.bcast(nvels, root=0)
BcastRoot ==
    /\ pc[0] = "tiles"
    /\ ti[0] = Len(array_split(0))
    /\ chan' = Bcast(nvels[0])
    /\ pc' = Goto(0, "assemble")
    /\ UNCHANGED <<inputs, scratch, ifgs, run, ti, nvels, tsincr, ts_hp, opened,
                   tsincr_g, asm_k, saved_k, state, failed, reads, before, slp_in, rw>>

\* line 157 on the other ranks
BcastRecv(r) ==
    /\ pc[r] = "tiles"
    /\ ti[r] = Len(array_split(r))
    /\ CanRecv(r)
    /\ nvels' = [nvels EXCEPT ![r] = Head(chan[r])]
    /\ chan' = Recvd(r)
    /\ pc' = Goto(r, "assemble")
    /\ UNCHANGED <<inputs, scratch, ifgs, run, ti, tsincr, ts_hp, opened,
                   tsincr_g, asm_k, saved_k, state, failed, reads, before, slp_in, rw>>

\* lines 185-186: np.empty(shape + (nvels,)); a shape holding None raises
AssembleStart ==
    /\ pc[0] = "assemble"
    /\ IF nvels[0] = None
       THEN /\ failed' = "TypeError"
            /\ pc' = Goto(0, "failed")
            /\ UNCHANGED <<tsincr_g, asm_k>>
       ELSE /\ tsincr_g' = [c \in Cells |-> [i \in 0 .. nvels[0] - 1 |-> Uninit]]
            /\ asm_k' = 0
            /\ pc' = Goto(0, "asm_loop")
            /\ UNCHANGED failed
    /\ UNCHANGED <<inputs, scratch, ifgs, run, ti, nvels, tsincr, ts_hp, opened,
                   chan, saved_k, state, reads, before, slp_in, rw>>

\* lines 187-189: one call of _assemble_tiles
AssembleTile ==
    /\ pc[0] = "asm_loop"
    /\ asm_k < nvels[0] * NTiles
    /\ LET i    == AsmIndex(asm_k).i
           n    == AsmIndex(asm_k).n
           file == scratch[n]
           err  == assemble_tiles_raises(i, file)
       IN  /\ reads' = Append(reads, [tile |-> n, epoch |-> i, state |-> file.state,
                                      by |-> file.by, nv |-> file.nv])
           /\ IF err /= "none"
              THEN /\ failed' = err
                   /\ pc' = Goto(0, "failed")
                   /\ UNCHANGED <<tsincr_g, asm_k>>
              ELSE /\ tsincr_g' = assemble_tiles(i, TileAt(n), tsincr_g, file)
                   /\ asm_k' = asm_k + 1
                   /\ UNCHANGED <<failed, pc>>
    /\ UNCHANGED <<inputs, scratch, ifgs, run, ti, nvels, tsincr, ts_hp, opened,
                   chan, saved_k, state, before, slp_in, rw>>

\* lines 191, 159-161: the cube is returned and run_once broadcasts it
AssembleDone ==
    /\ pc[0] = "asm_loop"
    /\ asm_k = nvels[0] * NTiles
    /\ tsincr' = [tsincr EXCEPT ![0] = tsincr_g]
    /\ chan' = Bcast(tsincr_g)
    /\ state' = "TS_COMPUTED"
    /\ pc' = Goto(0, "epochs")
    /\ UNCHANGED <<inputs, scratch, ifgs, run, ti, nvels, ts_hp, opened,
                   tsincr_g, asm_k, saved_k, failed, reads, before, slp_in, rw>>

\* line 159 on the other ranks
AssembleRecv(r) ==
    /\ pc[r] = "assemble"
    /\ CanRecv(r)
    /\ tsincr' = [tsincr EXCEPT ![r] = Head(chan[r])]
    /\ chan' = Recvd(r)
    /\ pc' = Goto(r, "epochs")
    /\ UNCHANGED <<inputs, scratch, ifgs, run, ti, nvels, ts_hp, opened,
                   tsincr_g, asm_k, saved_k, state, failed, reads, before, slp_in, rw>>

\* lines 72-73, 103 on rank 0: open ifg_paths[0], run_once(get_epochs)
EpochsRoot ==
    /\ pc[0] = "epochs"
    /\ opened' = [opened EXCEPT ![0] = TRUE]
    /\ chan' = Bcast(get_epochs(Network).spans)
    /\ pc' = Goto(0, "tlp")
    /\ UNCHANGED <<inputs, scratch, ifgs, run, ti, nvels, tsincr, ts_hp,
                   tsincr_g, asm_k, saved_k, state, failed, reads, before, slp_in, rw>>

\* lines 72-73, 103 on the other ranks
EpochsRecv(r) ==
    /\ pc[r] = "epochs"
    /\ CanRecv(r)
    /\ opened' = [opened EXCEPT ![r] = TRUE]
    /\ chan' = Recvd(r)
    /\ pc' = Goto(r, "tlp")
    /\ UNCHANGED <<inputs, scratch, ifgs, run, ti, nvels, tsincr, ts_hp,
                   tsincr_g, asm_k, saved_k, state, failed, reads, before, slp_in, rw>>

\* lines 105-108 on rank 0: run_once(temporal_low_pass_filter); ts_hp
TlpRoot ==
    /\ pc[0] = "tlp"
    /\ LET ts_lp == temporal_low_pass_filter(tsincr[0], nvels[0],
                                             get_epochs(Network).spans, params)
       IN  /\ chan' = Bcast(ts_lp)
           /\ ts_hp' = [ts_hp EXCEPT ![0] = CubeSub(tsincr[0], ts_lp, nvels[0])]
    /\ state' = "TEMPORAL_SPLIT"
    /\ pc' = Goto(0, "slp")
    /\ UNCHANGED <<inputs, scratch, ifgs, run, ti, nvels, tsincr, opened,
                   tsincr_g, asm_k, saved_k, failed, reads, before, slp_in, rw>>

\* lines 105-108 on the other ranks
TlpRecv(r) ==
    /\ pc[r] = "tlp"
    /\ CanRecv(r)
    /\ ts_hp' = [ts_hp EXCEPT ![r] = CubeSub(tsincr[r], Head(chan[r]), nvels[r])]
    /\ chan' = Recvd(r)
    /\ pc' = Goto(r, "slp")
    /\ UNCHANGED <<inputs, scratch, ifgs, run, ti, nvels, tsincr, opened,
                   tsincr_g, asm_k, saved_k, state, failed, reads, before, slp_in, rw>>

\* lines 110-112 on rank 0: run_once(spatial_low_pass_filter); tsincr -= ts_aps
SlpRoot ==
    /\ pc[0] = "slp"
    /\ IF nanfill_raises(ts_hp[0], nvels[0], params)
       THEN /\ failed' = "griddata"
            /\ pc' = Goto(0, "failed")
            /\ UNCHANGED <<chan, ts_hp, tsincr, state, slp_in>>
       ELSE \E alphas \in [0 .. nvels[0] - 1 -> Alphas] :
            LET ts_aps == spatial_low_pass_filter(ts_hp[0], nvels[0], alphas, params)
            IN  /\ chan' = Bcast(ts_aps)
                /\ slp_in' = ts_hp[0]
                /\ ts_hp' = [ts_hp EXCEPT ![0] = ts_aps]
                /\ tsincr' = [tsincr EXCEPT ![0] = CubeSub(tsincr[0], ts_aps, nvels[0])]
                /\ state' = "SPATIAL_ESTIMATED"
                /\ pc' = Goto(0, "recon")
                /\ UNCHANGED failed
    /\ UNCHANGED <<inputs, scratch, ifgs, run, ti, nvels, opened,
                   tsincr_g, asm_k, saved_k, reads, before, rw>>

\* lines 110-112 on the other ranks
SlpRecv(r) ==
    /\ pc[r] = "slp"
    /\ CanRecv(r)
    /\ tsincr' = [tsincr EXCEPT ![r] = CubeSub(tsincr[r], Head(chan[r]), nvels[r])]
    /\ chan' = Recvd(r)
    /\ pc' = Goto(r, "recon")
    /\ UNCHANGED <<inputs, scratch, ifgs, run, ti, nvels, ts_hp, opened,
                   tsincr_g, asm_k, saved_k, state, failed, reads, before, slp_in, rw>>

\* a plausible slip: the handle is not released
ifg_close_leaked(handles, r, path) == handles

\* ifg.close(): rank r releases its handle on the raster
ifg_close(handles, r, path) == handles \ {[rank |-> r, path |-> path]}

\* lines 212-213, 228-229 on rank 0: the next interferogram by storage key
\* is opened read-write
SaveOpen ==
    /\ pc[0] = "recon"
    /\ saved_k < NIfgs
    /\ rw' = rw \cup {[rank |-> 0, path |-> SortedIfgs[saved_k + 1].path]}
    /\ pc' = Goto(0, "save")
    /\ UNCHANGED <<inputs, scratch, ifgs, run, ti, nvels, tsincr, ts_hp, opened, chan,
                   tsincr_g, asm_k, saved_k, state, failed, reads, before, slp_in>>

\* lines 213, 230-234 on rank 0: the open interferogram is overwritten,
\* tagged, written and closed
SaveIfg ==
    /\ pc[0] = "save"
    /\ LET i     == saved_k + 1
           path  == SortedIfgs[i].path
           phase == ts_to_ifgs_phase(tsincr[0], i)
       IN  /\ ifgs' = [ifgs EXCEPT ![path] = save_aps_corrected_phase(ifgs[path], phase)]
           /\ rw' = ifg_close(rw, 0, path)
    /\ saved_k' = saved_k + 1
    /\ pc' = Goto(0, "recon")
    /\ UNCHANGED <<inputs, scratch, run, ti, nvels, tsincr, ts_hp, opened, chan,
                   tsincr_g, asm_k, state, failed, reads, before, slp_in>>

\* line 114 on rank 0: _ts_to_ifgs returns and run_once broadcasts None
ReconRoot ==
    /\ pc[0] = "recon"
    /\ saved_k = NIfgs
    /\ chan' = Bcast(None)
    /\ state' = "RECONSTRUCTED"
    /\ pc' = Goto(0, "close")
    /\ UNCHANGED <<inputs, scratch, ifgs, run, ti, nvels, tsincr, ts_hp, opened,
                   tsincr_g, asm_k, saved_k, failed, reads, before, slp_in, rw>>

\* line 114 on the other ranks
ReconRecv(r) ==
    /\ pc[r] = "recon"
    /\ CanRecv(r)
    /\ chan' = Recvd(r)
    /\ pc' = Goto(r, "close")
    /\ UNCHANGED <<inputs, scratch, ifgs, run, ti, nvels, tsincr, ts_hp, opened,
                   tsincr_g, asm_k, saved_k, state, failed, reads, before, slp_in, rw>>

\* line 75: ifg.close()
Close(r) ==
    /\ pc[r] = "close"
    /\ opened' = [opened EXCEPT ![r] = FALSE]
    /\ pc' = Goto(r, "done")
    /\ UNCHANGED <<inputs, scratch, ifgs, run, ti, nvels, tsincr, ts_hp, chan,
                   tsincr_g, asm_k, saved_k, state, failed, reads, before, slp_in, rw>>

\* every rank has returned: the orchestrator is run again on the same
\* interferograms and the same TMPDIR
NextRun ==
    /\ \A r \in Ranks : pc[r] = "done"
    /\ run < NRuns
    /\ run' = run + 1
    /\ before' = ifgs
    /\ pc' = [r \in Ranks |-> "start"]
    /\ ti' = [r \in Ranks |-> 0]
    /\ nvels' = [r \in Ranks |-> None]
    /\ tsincr' = [r \in Ranks |-> NoCube]
    /\ ts_hp' = [r \in Ranks |-> NoCube]
    /\ tsincr_g' = NoCube
    /\ asm_k' = 0
    /\ saved_k' = 0
    /\ state' = "NOT_STARTED"
    /\ reads' = <<>>
    /\ slp_in' = NoCube
    /\ UNCHANGED <<inputs, scratch, ifgs, opened, chan, failed, rw>>

Next ==
    \/ \E r \in Ranks : Start(r)
    \/ CheckRoot
    \/ \E r \in Ranks : CheckRecv(r)
    \/ \E r \in Ranks : TileCompute(r)
    \/ \E r \in Ranks : TileSave(r)
    \/ BcastRoot
    \/ \E r \in Ranks : BcastRecv(r)
    \/ AssembleStart
    \/ AssembleTile
    \/ AssembleDone
    \/ \E r \in Ranks : AssembleRecv(r)
    \/ EpochsRoot
    \/ \E r \in Ranks : EpochsRecv(r)
    \/ TlpRoot
    \/ \E r \in Ranks : TlpRecv(r)
    \/ SlpRoot
    \/ \E r \in Ranks : SlpRecv(r)
    \/ SaveOpen
    \/ SaveIfg
    \/ ReconRoot
    \/ \E r \in Ranks : ReconRecv(r)
    \/ \E r \in Ranks : Close(r)
    \/ NextRun

Spec == Init /\ [][Next]_vars

(***************************************************************************)
(* The temporal filter applied on its own to one pixel.                    *)
(***************************************************************************)
\* epoch spans in years: evenly spaced, and with growing intervals
SpanChoices(nv) ==
    { [i \in 0 .. nv |-> Num(i)], [i \in 0 .. nv |-> Num((i * (i + 1)) \div 2)] }

InitTlp ==
    /\ Init
    /\ size = 1
    /\ params = CHOOSE q \in ParamSets : ~q.apsest
    /\ truth = CHOOSE tc \in TruthCubes : TRUE
    /\ scratch = [n \in TileIds |-> Absent]

\* temporal_low_pass_filter on a cube of one pixel
ApplyTlp ==
    /\ probe.fn = "none"
    /\ \E nv \in 1 .. MaxEpochs :
       \E row \in [0 .. nv - 1 -> {NaN} \cup {Num(v) : v \in 1 .. MaxVal}] :
       \E spans \in SpanChoices(nv) :
       \E threshold \in 1 .. MaxEpochs :
       \E cutoff \in {Num(1), Num(2)} :
       \E method \in {1, 2, 3} :
          probe' = [fn |-> "tlp", row |-> row, nv |-> nv, spans |-> spans,
                    threshold |-> threshold, cutoff |-> cutoff, method |-> method,
                    out |-> tlpfilter(row, nv, SpanOf(spans, nv), threshold,
                                      cutoff, method)]
    /\ UNCHANGED <<size, params, split, truth, scratch, ifgs, run, pc, ti, nvels,
                   tsincr, ts_hp, opened, chan, tsincr_g, asm_k, saved_k, state,
                   failed, reads, before, slp_in, rw>>

NextTlp == ApplyTlp

SpecTlp == InitTlp /\ [][NextTlp]_vars

(***************************************************************************)
(* Vocabulary of the properties.                                           *)
(***************************************************************************)
AllDates == {Network[k].master : k \in 1 .. NIfgs} \cup {Network[k].slave : k \in 1 .. NIfgs}

\* the index of a date in the epoch list
EpochIndexOf(d) == Cardinality({x \in AllDates : x < d})

IfgOf(p) == CHOOSE g \in {Network[k] : k \in 1 .. NIfgs} : g.path = p

MasterIndex(p) == EpochIndexOf(IfgOf(p).master)
SlaveIndex(p) == EpochIndexOf(IfgOf(p).slave)

\* the sum of row[lo], ..., row[hi - 1]
RECURSIVE RangeSum(_, _, _)
RangeSum(row, lo, hi) ==
    IF hi <= lo THEN Num(0) ELSE FAdd(RangeSum(row, lo, hi - 1), row[hi - 1])

\* interferogram p has been saved by the current run: the interferograms
\* are saved in the order of their storage keys
Saved(p) == Cardinality({q \in Paths : q < p}) < saved_k

\* the number of valid epochs of a pixel of the assembled cube
ValidEpochs(c) == Cardinality({e \in DOMAIN tsincr_g[c] : ~isnan(tsincr_g[c][e])})

\* the assembled cube is NaN at some epoch of the range of interferogram p
HoleInRange(p, c) ==
    \E e \in MasterIndex(p) .. SlaveIndex(p) - 1 : isnan(tsincr_g[c][e])

TileIdOf(c) == CHOOSE n \in TileIds : c \in TileCells(TileAt(n))

\* what the scratch file a load saw holds at a tile-local cell and epoch
Persisted(rd, lc, i) ==
    IF rd.by = 0 THEN Stale(TileAt(rd.tile), rd.nv).data[lc][i]
    ELSE time_series(TileAt(rd.tile))[lc][i]

AllDone == \A r \in Ranks : pc[r] = "done"

Filtered == state \in {"SPATIAL_ESTIMATED", "RECONSTRUCTED"}

Assembled == state \in {"TS_COMPUTED", "TEMPORAL_SPLIT", "SPATIAL_ESTIMATED", "RECONSTRUCTED"}

\* a rank is at assembly or past it in a run that computes the time series
PastBroadcast(r) ==
    pc[r] \in {"assemble", "asm_loop", "epochs", "tlp", "slp", "recon", "save", "close"}

(***************************************************************************)
(* Properties.                                                             *)
(***************************************************************************)
\* C1: with APS correction enabled, the first run ends with the tag on every
\* interferogram, and a run that follows it ends SKIPPED: it changes no
\* phase value and no tag, and computes no tile time series.
C1_SecondRunSkipped ==
    params.apsest =>
        /\ state = "RECONSTRUCTED" => \A p \in Paths : ifgs[p].tag = "APS_REMOVED"
        /\ run > 1 =>
            /\ ifgs = before
            /\ state \in {"NOT_STARTED", "SKIPPED"}
            /\ \A r \in Ranks : ti[r] = 0 /\ pc[r] \in {"start", "check", "done"}
            /\ \A n \in TileIds : scratch[n].by < run
            /\ pc[0] = "done" => state = "SKIPPED"

C1_Witness ==
    /\ params.apsest /\ run = 2 /\ size = 2 /\ AllDone /\ state = "SKIPPED"
    /\ \E p \in Paths : ifgs[p].phase /= OrigPhase(p)

\* C2: for every saved interferogram and every pixel valid in its original
\* phase, the persisted phase is the sum of the corrected increments over
\* the epochs [master index, slave index).
C2_PhaseIsRangeSum ==
    \A p \in Paths : Saved(p) =>
        \A c \in Cells : ~isnan(before[p].phase[c]) =>
            ifgs[p].phase[c] = RangeSum(tsincr[0][c], MasterIndex(p), SlaveIndex(p))

C2_Witness ==
    /\ state = "RECONSTRUCTED"
    /\ \E p \in Paths : \E c \in Cells :
          /\ SlaveIndex(p) - MasterIndex(p) = 2
          /\ ~isnan(before[p].phase[c])
          /\ ~isnan(ifgs[p].phase[c])
          /\ ifgs[p].phase[c] /= before[p].phase[c]

\* C3: a pixel that is NaN in the original phase of an interferogram is NaN
\* in the persisted raster, whatever the corrected cube holds there.
C3_NaNStaysNaN ==
    \A p \in Paths : \A c \in Cells :
        isnan(before[p].phase[c]) => isnan(ifgs[p].phase[c])

C3_Witness ==
    \E p \in Paths : \E c \in Cells :
        /\ Saved(p)
        /\ isnan(before[p].phase[c])
        /\ ~isnan(RangeSum(tsincr[0][c], MasterIndex(p), SlaveIndex(p)))

\* C4 as stated: after a correction run a pixel valid in the original phase
\* is valid in the persisted phase unless its number of valid epochs is
\* below the temporal threshold.
C4_ValidStaysValid ==
    state = "RECONSTRUCTED" =>
        \A p \in Paths : \A c \in Cells :
            ~isnan(before[p].phase[c]) /\ ValidEpochs(c) >= params.tlpf_pthr
                => ~isnan(ifgs[p].phase[c])

\* C4 amended: ... unless its number of valid epochs is below the temporal
\* threshold or the cube is NaN at an epoch of the interferogram's range.
C4_ValidStaysValidOutsideHoles ==
    state = "RECONSTRUCTED" =>
        \A p \in Paths : \A c \in Cells :
            /\ ~isnan(before[p].phase[c])
            /\ ValidEpochs(c) >= params.tlpf_pthr
            /\ ~HoleInRange(p, c)
            => ~isnan(ifgs[p].phase[c])

C4_Witness ==
    /\ state = "RECONSTRUCTED"
    /\ \E c \in Cells : ValidEpochs(c) < Nvels
    /\ \E p \in Paths : \E c \in Cells :
          /\ ~isnan(before[p].phase[c])
          /\ ValidEpochs(c) >= params.tlpf_pthr
          /\ ~HoleInRange(p, c)
          /\ ifgs[p].phase[c] /= before[p].phase[c]

\* C5: every position that is NaN in the cube passed to the spatial filter
\* is NaN in the atmospheric estimate it returns.
C5_SpatialKeepsNaN ==
    Filtered =>
        \A c \in Cells : \A i \in DOMAIN slp_in[c] :
            isnan(slp_in[c][i]) => isnan(ts_hp[0][c][i])

\* C6: the assembly loads a tile's scratch file only after the rank that
\* owns the tile has saved it in this run.
C6_NoReadBeforeWrite ==
    \A k \in 1 .. Len(reads) : reads[k].state = "saved" /\ reads[k].by = run

\* C7: once assembled, every cell of every epoch of the cube holds what was
\* loaded from the file of the one tile that contains the cell, at the
\* tile-local position and that epoch; no cell is left unfilled.
C7_CubeFilledFromTiles ==
    Assembled =>
        \A c \in Cells : \A i \in 0 .. nvels[0] - 1 :
            /\ tsincr_g[c][i] /= Uninit
            /\ \E k \in 1 .. Len(reads) :
                  /\ reads[k].tile = TileIdOf(c)
                  /\ reads[k].epoch = i
                  /\ tsincr_g[c][i] = Persisted(reads[k], Local(TileAt(TileIdOf(c)), c), i)

C7_Witness ==
    /\ state = "TS_COMPUTED"
    /\ size = 2
    /\ \E n \in TileIds : split[n] = 1
    /\ Len(reads) = Nvels * NTiles

\* C8: when a tile's persisted result has another epoch count than nvels,
\* no cube is returned, no filter runs and no raster is modified.
C8_MismatchAborts ==
    (\E k \in 1 .. Len(reads) : reads[k].state = "saved" /\ reads[k].nv /= nvels[0])
        => state = "NOT_STARTED" /\ ifgs = before

\* C9: every rank at or past assembly holds the epoch count of a computed
\* tile result.
C9_EpochCountBroadcast ==
    \A r \in Ranks : PastBroadcast(r) => nvels[r] = Nvels

\* C10: with the mean method, at every valid epoch of a pixel with at least
\* threshold valid epochs the output is the arithmetic mean of the pixel's
\* valid values, whatever the cutoff and the spans.
C10_MeanOfValid ==
    probe.fn = "tlp" /\ probe.method \notin {1, 2} =>
        LET valid == {e \in 0 .. probe.nv - 1 : ~isnan(probe.row[e])}
            m     == Cardinality(valid)
            total == RangeSum([e \in 0 .. probe.nv - 1 |->
                                  IF e \in valid THEN probe.row[e] ELSE Num(0)],
                              0, probe.nv)
        IN  m >= probe.threshold =>
                \A e \in valid : probe.out[e] = FDiv(total, Num(m))

C10_Witness ==
    /\ probe.fn = "tlp" /\ probe.method = 3 /\ probe.threshold = 2 /\ probe.nv = 3
    /\ probe.spans[2] /= Num(2)
    /\ isnan(probe.row[1]) /\ probe.row[0] = Num(1) /\ probe.row[2] = Num(2)
    /\ probe.out[0] = Rat(3, 2) /\ probe.out[2] = Rat(3, 2)

\* the transitions of the state machine of a correction run
StateOrder ==
    { <<"NOT_STARTED", "SKIPPED">>, <<"NOT_STARTED", "TS_COMPUTED">>,
      <<"TS_COMPUTED", "TEMPORAL_SPLIT">>, <<"TEMPORAL_SPLIT", "SPATIAL_ESTIMATED">>,
      <<"SPATIAL_ESTIMATED", "RECONSTRUCTED">> }

\* the run moves from one state of the state machine to the next one
OrderedStep == state' /= state => <<state, state'>> \in StateOrder

\* the temporal filter runs on the fully assembled cube
TemporalAfterAssembly ==
    state' = "TEMPORAL_SPLIT" /\ state /= "TEMPORAL_SPLIT" =>
        /\ state = "TS_COMPUTED"
        /\ asm_k = nvels[0] * NTiles
        /\ tsincr[0] = tsincr_g
        /\ \A c \in Cells : \A i \in 0 .. nvels[0] - 1 : tsincr_g[c][i] /= Uninit

\* the spatial filter is passed the cube minus its temporal low-pass part
SpatialOnResidual ==
    slp_in' /= slp_in =>
        /\ state = "TEMPORAL_SPLIT"
        /\ slp_in' = CubeSub(tsincr_g,
                             temporal_low_pass_filter(tsincr_g, nvels[0],
                                                      get_epochs(Network).spans, params),
                             nvels[0])

\* a raster is written only once the atmospheric estimate has been
\* subtracted from the assembled increments
WriteAfterSubtraction ==
    ifgs' /= ifgs =>
        /\ state = "SPATIAL_ESTIMATED"
        /\ tsincr[0] = CubeSub(tsincr_g, ts_hp[0], nvels[0])

\* in a terminal state no step of the run acts: no tile is computed, no
\* cube and no raster changes
TerminalIsFinal ==
    state \in {"SKIPPED", "RECONSTRUCTED"} =>
        /\ state' = state /\ ifgs' = ifgs /\ scratch' = scratch
        /\ tsincr_g' = tsincr_g /\ tsincr'[0] = tsincr[0] /\ ts_hp'[0] = ts_hp[0]

\* C11: within a run the steps come in the order NOT_STARTED, then SKIPPED,
\* or TS_COMPUTED, TEMPORAL_SPLIT, SPATIAL_ESTIMATED, RECONSTRUCTED: the
\* temporal filter runs on the assembled cube, the spatial filter on the
\* temporal high-pass residual, rasters are written only after the estimate
\* is subtracted, and no step runs after SKIPPED or RECONSTRUCTED.
C11_StepOrder ==
    [][run' = run =>
          /\ OrderedStep
          /\ TemporalAfterAssembly
          /\ SpatialOnResidual
          /\ WriteAfterSubtraction
          /\ TerminalIsFinal]_vars

\* the read-write handles are rank 0's, at most one at a time, and held
\* only while _ts_to_ifgs saves an interferogram
OneWriter ==
    /\ \A h \in rw : h.rank = 0
    /\ Cardinality(rw) <= 1
    /\ rw /= {} => pc[0] = "save" /\ state = "SPATIAL_ESTIMATED"

\* C12: rasters are held read-write only by rank 0, only during
\* reconstruction and one at a time, and a raster (phase or tag) changes
\* only while rank 0 holds it read-write, no other raster changing with it.
C12_SingleWriter ==
    [][/\ OneWriter'
       /\ ifgs' /= ifgs =>
             \E p \in Paths :
                /\ rw = {[rank |-> 0, path |-> p]}
                /\ \A q \in Paths \ {p} : ifgs'[q] = ifgs[q]]_vars

C12_Witness ==
    /\ size = 2
    /\ saved_k = 1
    /\ rw = {[rank |-> 0, path |-> SortedIfgs[2].path]}
    /\ ifgs[SortedIfgs[1].path].tag = "APS_REMOVED"
    /\ ifgs[SortedIfgs[2].path].tag = "none"
    /\ \E r \in Ranks : r /= 0 /\ opened[r]

\* the weights the filter uses for output epoch e have a sum other than 0
WeightsSumNonZero(e) ==
    LET sel  == Sel(probe.row, probe.nv)
        span == SpanOf(probe.spans, probe.nv)
        yr   == [j \in 1 .. Len(sel) |-> FSub(span[sel[j]], span[e])]
        tot  == SeqSum(Kernel(probe.method, Len(sel), yr, probe.cutoff))
    IN  ~isnan(tot) /\ tot /= Num(0)

\* C13: a pixel with fewer valid epochs than the threshold is NaN at every
\* epoch of the temporal filter output; a pixel with at least threshold
\* valid epochs is non-NaN exactly at the epochs where the input is valid,
\* the weights having a non-zero sum.
C13_TemporalNaNPattern ==
    probe.fn = "tlp" =>
        LET epochs == 0 .. probe.nv - 1
            m      == Cardinality({e \in epochs : ~isnan(probe.row[e])})
        IN  /\ m < probe.threshold => \A e \in epochs : isnan(probe.out[e])
            /\ m >= probe.threshold =>
                  \A e \in epochs :
                     /\ isnan(probe.row[e]) => isnan(probe.out[e])
                     /\ ~isnan(probe.row[e]) /\ WeightsSumNonZero(e)
                            => ~isnan(probe.out[e])

C13_Witness ==
    /\ probe.fn = "tlp" /\ probe.nv = 3 /\ probe.threshold = 3 /\ probe.method = 2
    /\ isnan(probe.row[1]) /\ ~isnan(probe.row[0]) /\ ~isnan(probe.row[2])
    /\ \A e \in 0 .. 2 : isnan(probe.out[e])

\* the file of tile n changes only by the one np.save of the rank that owns
\* the tile: it is opened once in a run, and then completed
WrittenOnceByOwner(n) ==
    scratch'[n] /= scratch[n] =>
        /\ pc'[split[n]] /= pc[split[n]]
        /\ \/ scratch[n].by < run /\ scratch'[n] = Partial(run)
           \/ scratch[n] = Partial(run) /\ scratch'[n].state = "saved"
                                       /\ scratch'[n].by = run

\* no file has been loaded twice by the assembly
ReadOnce(rds) ==
    \A j \in 1 .. Len(rds) : \A k \in 1 .. Len(rds) :
        rds[j].tile = rds[k].tile => j = k

\* C14: in a run every scratch array tsincr_aps_<n> is written once, by the
\* rank that owns tile n, and the assembly loads it once.
C14_WriteOnceReadOnce ==
    [][/\ \A n \in TileIds : WrittenOnceByOwner(n)
       /\ ReadOnce(reads')]_vars

\* epoch slice i of a cube is entirely NaN
AllNaNSlice(cube, i) == \A c \in Cells : isnan(cube[c][i])

\* the spatial filter has not raised on a cube with an all-NaN slice
NoErrorOnNaNSlice ==
    failed = "griddata" =>
        ~\E i \in 0 .. nvels[0] - 1 : AllNaNSlice(ts_hp[0], i)

\* an all-NaN slice of the input is all NaN in the returned estimate
NaNSliceUnchanged ==
    Filtered =>
        \A i \in 0 .. nvels[0] - 1 :
            AllNaNSlice(slp_in, i) => AllNaNSlice(ts_hp[0], i)

\* C15: an entirely NaN epoch slice of the cube passed to the spatial
\* filter comes back entirely NaN and raises no error, under either NaN
\* fill policy and for every cutoff, 0 included.
C15_NaNSlicePassThrough == NoErrorOnNaNSlice /\ NaNSliceUnchanged

====
